---- MODULE Spec2Model ----
(***************************************************************************)
(* GameOverlayService (src/app/services/game-overlay/index.ts): the        *)
(* overlay-window lifecycle manager, as a state machine.                   *)
(*                                                                         *)
(* Every handler is one action up to its first real suspension point.  An  *)
(* await of a value that is not a pending promise resumes in a microtask,  *)
(* before any other event is dispatched, so it stays inside the action.    *)
(* The real suspensions are: the chat-URL lookup awaited in                *)
(* configureWindows, each window's did-finish-load event, and the          *)
(* delay(5000) of the readiness pipeline.  Time is not measured: a delay   *)
(* that has been started runs out at some later step.                      *)
(*                                                                         *)
(* Optional values (JavaScript null) are tuples: Null is <<>>, an overlay  *)
(* id n is <<n>>, a position {x, y} is <<x, y>>.                           *)
(*                                                                         *)
(* The libraries the service calls behave as follows.  RxJS: take(0) is    *)
(* the empty stream, and delay postpones the completion as it postpones    *)
(* values.  Electron: destroy() of a destroyed window does nothing, every  *)
(* other method of a destroyed window throws.  The compositor: a command   *)
(* carrying an id it does not know, or null, returns without throwing;     *)
(* stop() forgets every surface, and ids are handed out from 1 again.      *)
(* The chat-URL lookup resolves.  The session lifecycle's destroy() runs   *)
(* the destroy callback and cancels its login and logout hooks.  A window  *)
(* destroy() that fails throws; a teardown in which one does is an action  *)
(* of its own, and the one that fails there is the first.                  *)
(***************************************************************************)
EXTENDS Integers, Sequences, FiniteSets, TLC

\* Bound: initializeOverlay runs per process (each creates two window pairs).
MaxRuns == 2

Null == <<>>

\* Insertion order of this.windows / this.previewWindows, the order of
\* Object.keys and Object.values.
KeyOrder == <<"recentEvents", "chat">>

Keys == {"recentEvents", "chat"}

\* The display of the main window, and a second monitor that can be
\* attached and detached.
MainDisplay ==
  [bounds |-> [x |-> 0, y |-> 0, width |-> 1920, height |-> 1080],
   workArea |-> [height |-> 1040]]

SecondDisplay ==
  [bounds |-> [x |-> 1920, y |-> 0, width |-> 1920, height |-> 1080],
   workArea |-> [height |-> 1040]]

DisplayConfigs == {{MainDisplay}, {MainDisplay, SecondDisplay}}

\* Where the user can drop a preview window: the origin of the main
\* display, and inside the second display (the default positions are
\* inside the main display).
DragPositions == {<<0, 0>>, <<2500, 500>>}

\* Arguments of setOverlayOpacity.
OpacityInputs == {-10, 50, 150}

\* What overlay.addHWND can return: a fresh id, -1 or null.
AddResults == {"id", "minusOne", "null"}

VARIABLES
  state,        \* the persisted GameOverlayState
  runs,         \* one record per initializeOverlay run: windows + subscription
  pending,      \* initializeOverlay calls suspended on the chat-URL lookup
  status,       \* overlay.getStatus()
  hwnds,        \* surface ids the running compositor has handed out
  displays,     \* electron.screen.getAllDisplays()
  lifecycle,    \* this.lifecycle: "unset", "bound" to the session's login
                \* and logout, or "destroyed" (set, its hooks cancelled)
  initialized,  \* initialize() has run in this process
  loggedIn,     \* the session collaborator's state
  calls,        \* what the last step told the compositor, and, in a
                \* teardown, the subscription and the windows, in order
  lastOp        \* the last step: handler name, arguments, whether it threw

vars == <<state, runs, pending, status, hwnds, displays, lifecycle,
          initialized, loggedIn, calls, lastOp>>

----------------------------------------------------------------------------
(* Helpers *)

Op(name, arg, threw) == [name |-> name, arg |-> arg, threw |-> threw]

Call(fn, id, args) == [fn |-> fn, id |-> id, args |-> args]

\* The run whose windows this.windows / this.previewWindows hold, and whose
\* subscription this.onWindowsReadySubscription holds: the latest one
\* (0: the maps are still empty).
cur == Len(runs)

\* Object.keys(this.windows).length
WindowCount == IF cur = 0 THEN 0 ELSE Len(KeyOrder)

\* key === 'chat' ? { width: 300, height: 600 } : { width: 600, height: 300 }
Size(key) == IF key = "chat" THEN <<300, 600>> ELSE <<600, 300>>

\* percentage * 2.55, in hundredths.
Scale(percentage) == percentage * 255

----------------------------------------------------------------------------
(* The persisted state and its mutations *)

defaultState ==
  [isEnabled |-> FALSE,
   isShowing |-> FALSE,
   isPreviewEnabled |-> TRUE,
   previewMode |-> FALSE,
   opacity |-> 100,
   windowProperties |-> [k \in Keys |-> [position |-> Null, id |-> Null]]]

TOGGLE_OVERLAY(s, isShowing) == [s EXCEPT !.isShowing = isShowing]

SET_ENABLED(s, shouldEnable) == [s EXCEPT !.isEnabled = shouldEnable]

SET_PREVIEW_MODE(s, previewMode) == [s EXCEPT !.previewMode = previewMode]

SET_WINDOW_ID(s, window, id) == [s EXCEPT !.windowProperties[window].id = id]

SET_WINDOW_POSITION(s, window, position) ==
  [s EXCEPT !.windowProperties[window].position = position]

SET_OPACITY(s, val) == [s EXCEPT !.opacity = val]

SET_PREVIEW_ENABLED(s, isEnabled) == [s EXCEPT !.isPreviewEnabled = isEnabled]

----------------------------------------------------------------------------
(* Display Topology Resolver *)

\* [display.workArea.height / 2 + 200, display.workArea.height / 2 - 300]
getWindowContainerStartingPosition ==
  <<MainDisplay.workArea.height \div 2 + 200,
    MainDisplay.workArea.height \div 2 - 300>>

defaultPosition(key) ==
  LET container == getWindowContainerStartingPosition
      x == IF key = "recentEvents" THEN container[1] - 600 ELSE container[1]
  IN <<x, container[2]>>

\* The lower half of the find() predicate only.
InDisplay_LowerBoundOnly(pos, display) ==
  pos[1] > display.bounds.x /\ pos[2] > display.bounds.y

\* The find() predicate of determineStartPosition.
InDisplay(pos, display) ==
  LET bounds == display.bounds
      intBounds == pos[1] > bounds.x /\ pos[2] > bounds.y
      extBounds == pos[1] < bounds.x + bounds.width
                   /\ pos[2] < bounds.y + bounds.height
  IN intBounds /\ extBounds

\* determineStartPosition(window) on state s: the state it leaves and the
\* position it returns.
determineStartPosition(s, window, ds) ==
  LET pos == s.windowProperties[window].position
  IN IF pos # Null /\ \E display \in ds : InDisplay(pos, display)
     THEN [state |-> s, position |-> pos]
     ELSE [state |-> SET_WINDOW_POSITION(s, window, Null),
           position |-> defaultPosition(window)]

----------------------------------------------------------------------------
(* Window pairs and the readiness pipeline of one initializeOverlay run *)

\* configureWindows' forEach from the i-th key on: each key's start
\* position, and the state the resolver leaves.
RECURSIVE PlaceFrom(_, _, _, _)
PlaceFrom(i, s, ds, placed) ==
  IF i > Len(KeyOrder) THEN [state |-> s, placed |-> placed]
  ELSE LET key == KeyOrder[i]
           r == determineStartPosition(s, key, ds)
       IN PlaceFrom(i + 1, r.state, ds, [placed EXCEPT ![key] = r.position])

\* take(n).delay(5000): take(0) is the empty stream, which completes on
\* subscription, and delay schedules that completion 5 seconds later.
Subscribe(n) ==
  IF n = 0 THEN [need |-> 0, phase |-> "delaying"]
  ELSE [need |-> n, phase |-> "waiting"]

\* The windows and the subscription one initializeOverlay creates.
NewRun(caller, n, placed) ==
  LET sub == Subscribe(n)
  IN [caller |-> caller,
      destroyed |-> FALSE,
      loading |-> [k \in Keys |-> k = "recentEvents"],
      loaded |-> [k \in Keys |-> FALSE],
      winPos |-> placed,
      prevPos |-> placed,
      previewShown |-> FALSE,
      paint |-> [k \in Keys |-> 0],
      need |-> sub.need,
      phase |-> sub.phase]

\* initializeOverlay up to the await of the chat URL.
initializeOverlay(caller) ==
  LET r == PlaceFrom(1, state, displays, [k \in Keys |-> Null])
  IN /\ cur < MaxRuns
     /\ status' = "Running"
     /\ runs' = Append(runs, NewRun(caller, WindowCount, r.placed))
     /\ pending' = pending \cup {[run |-> cur + 1, caller |-> caller]}
     /\ state' = r.state
     /\ calls' = <<Call("start", Null, <<>>)>>
     /\ UNCHANGED hwnds

\* onWindowsReadySubscription.unsubscribe()
Unsubscribe(rs) ==
  IF Len(rs) > 0 /\ rs[Len(rs)].phase \in {"waiting", "delaying"}
  THEN [rs EXCEPT ![Len(rs)].phase = "unsubscribed"]
  ELSE rs

\* Object.values(this.windows).forEach(win => win.destroy()), then the same
\* for this.previewWindows: destroy() of a destroyed window does nothing.
DestroyWindows(rs) ==
  IF Len(rs) > 0
  THEN [rs EXCEPT ![Len(rs)].destroyed = TRUE,
                  ![Len(rs)].winPos = [k \in Keys |-> Null],
                  ![Len(rs)].prevPos = [k \in Keys |-> Null],
                  ![Len(rs)].previewShown = FALSE,
                  ![Len(rs)].paint = [k \in Keys |-> 0]]
  ELSE rs

\* The destroy() calls of the two forEach loops, in order.
DestroyCalls(rs) ==
  IF Len(rs) = 0 THEN <<>>
  ELSE [i \in 1..(2 * Len(KeyOrder)) |->
          IF i <= Len(KeyOrder)
          THEN Call("destroy", Null, <<"windows", KeyOrder[i]>>)
          ELSE Call("destroy", Null,
                    <<"previewWindows", KeyOrder[i - Len(KeyOrder)]>>)]

\* if (this.onWindowsReadySubscription) await ...unsubscribe()
UnsubscribeCalls(rs) ==
  IF Len(rs) = 0 THEN <<>> ELSE <<Call("unsubscribe", Null, <<>>)>>

\* The same statements with overlay.stop() moved to the end.
TeardownCalls_StopLast(rs) ==
  UnsubscribeCalls(rs) \o DestroyCalls(rs) \o <<Call("stop", Null, <<>>)>>

\* The statements of destroyOverlay's isEnabled branch, in order.
TeardownCalls(rs) ==
  <<Call("stop", Null, <<>>)>> \o UnsubscribeCalls(rs) \o DestroyCalls(rs)

\* destroyOverlay on state s: what it leaves.
destroyOverlay(s) ==
  LET flags == TOGGLE_OVERLAY(SET_PREVIEW_MODE(s, FALSE), FALSE)
  IN IF s.isEnabled
     THEN [state |-> flags,
           runs |-> DestroyWindows(Unsubscribe(runs)),
           status |-> "Stopped",
           hwnds |-> {},
           calls |-> TeardownCalls(runs)]
     ELSE [state |-> flags, runs |-> runs, status |-> status,
           hwnds |-> hwnds, calls |-> <<>>]

\* destroyOverlay on state s when the first destroy() throws: the forEach
\* stops there and the exception leaves destroyOverlay, past the two
\* mutations at its end.
destroyOverlayFailing(s) ==
  [state |-> s,
   runs |-> Unsubscribe(runs),
   status |-> "Stopped",
   hwnds |-> {},
   calls |-> SubSeq(TeardownCalls(runs), 1,
                    Len(TeardownCalls(runs)) - Len(DestroyCalls(runs)) + 1)]

\* A method other than destroy() called on a window of the current run
\* throws when that window has been destroyed.
WindowsGone == cur > 0 /\ runs[cur].destroyed

----------------------------------------------------------------------------
(* Handlers as functions of the state they start from *)

\* win.getPosition() of the preview window, as setPreviewMode reads it.
\* Variant: the source window's position is read instead.
PreviewPosition_Source(key) == runs[cur].winPos[key]

PreviewPosition(key) == runs[cur].prevPos[key]

\* setPreviewMode(false): the async forEach callback, key by key.  The
\* trailing win.hide() of each callback runs in a microtask of the same turn.
RECURSIVE LeavePreviewFrom(_, _, _)
LeavePreviewFrom(i, s, cs) ==
  IF i > Len(KeyOrder) THEN [state |-> s, calls |-> cs]
  ELSE LET key == KeyOrder[i]
           overlayId == s.windowProperties[key].id
           xy == PreviewPosition(key)
           wh == Size(key)
       IN LeavePreviewFrom(
            i + 1,
            SET_WINDOW_POSITION(s, key, xy),
            Append(cs, Call("setPosition", overlayId,
                            <<xy[1], xy[2], wh[1], wh[2]>>)))

\* setPreviewMode(previewMode) on state s.  It is async: show() of a
\* destroyed preview window rejects its promise (threw); leaving preview
\* mode, getPosition() of a destroyed window only rejects the promise of that
\* key's async callback, which nobody awaits, and the call itself succeeds.
setPreviewMode(s, previewMode) ==
  LET s1 == IF s.isShowing THEN TOGGLE_OVERLAY(s, FALSE) ELSE s
      c1 == IF s.isShowing THEN <<Call("hide", Null, <<>>)>> ELSE <<>>
      s2 == SET_PREVIEW_MODE(s1, previewMode)
  IN IF ~s1.isEnabled
     THEN [state |-> s1, calls |-> c1, runs |-> runs, threw |-> FALSE]
     ELSE IF cur = 0
     THEN [state |-> s2, calls |-> c1, runs |-> runs, threw |-> FALSE]
     ELSE IF WindowsGone
     THEN [state |-> s2, calls |-> c1, runs |-> runs, threw |-> previewMode]
     ELSE IF previewMode
     THEN [state |-> s2, calls |-> c1,
           runs |-> [runs EXCEPT ![cur].previewShown = TRUE],
           threw |-> FALSE]
     ELSE LET r == LeavePreviewFrom(1, s2, c1)
          IN [state |-> r.state, calls |-> r.calls,
              runs |-> [runs EXCEPT ![cur].previewShown = FALSE],
              threw |-> FALSE]

\* resetPosition's forEach from the i-th key on; setBounds of a destroyed
\* window throws and ends the loop.
RECURSIVE ResetFrom(_, _, _, _)
ResetFrom(i, s, rs, cs) ==
  IF i > Len(KeyOrder)
  THEN [state |-> s, runs |-> rs, calls |-> cs, threw |-> FALSE]
  ELSE LET key == KeyOrder[i]
           overlayId == s.windowProperties[key].id
           pos == defaultPosition(key)
           size == Size(key)
           s1 == SET_WINDOW_POSITION(s, key, Null)
       IN IF overlayId = Null THEN ResetFrom(i + 1, s, rs, cs)
          ELSE IF rs[cur].destroyed
          THEN [state |-> s1, runs |-> rs, calls |-> cs, threw |-> TRUE]
          ELSE ResetFrom(
                 i + 1, s1,
                 [rs EXCEPT ![cur].winPos[key] = pos,
                            ![cur].prevPos[key] = pos],
                 Append(cs, Call("setPosition", overlayId,
                                 <<pos[1], pos[2], size[1], size[2]>>)))

resetPosition(s) ==
  IF cur = 0
  THEN [state |-> s, runs |-> runs, calls |-> <<>>, threw |-> FALSE]
  ELSE ResetFrom(1, s, runs, <<>>)

\* setOverlayOpacity's forEach over Object.keys(this.windows).
RECURSIVE TransparencyFrom(_, _, _, _)
TransparencyFrom(i, s, percentage, cs) ==
  IF i > WindowCount THEN cs
  ELSE TransparencyFrom(
         i + 1, s, percentage,
         Append(cs, Call("setTransparency",
                         s.windowProperties[KeyOrder[i]].id,
                         <<Scale(percentage)>>)))

setOverlayOpacity(s, percentage) ==
  LET s1 == SET_OPACITY(s, percentage)
  IN [state |-> s1,
      calls |-> IF ~s1.isEnabled THEN <<>>
                ELSE TransparencyFrom(1, s1, percentage, <<>>)]

\* getPosition(key, win)
getPosition(s, key) ==
  IF s.windowProperties[key].position # Null
  THEN s.windowProperties[key].position
  ELSE runs[cur].winPos[key]

\* The id the compositor hands out next.
FreshId(hw) == Cardinality(hw) + 1

\* overlayId === -1 || overlayId == null
\* Variant: only null is rejected.
InvalidId_NullOnly(overlayId) == overlayId = Null

InvalidId(overlayId) == overlayId = <<-1>> \/ overlayId = Null

\* createWindowOverlays' forEach from the i-th key on, with res[key] what
\* addHWND returns for that key.  An invalid id throws (this.overlayWindow is
\* never assigned, so the hide() before the throw statement throws first) and
\* ends the loop.
RECURSIVE RegisterFrom(_, _, _, _, _)
RegisterFrom(i, s, hw, cs, res) ==
  IF i > Len(KeyOrder)
  THEN [state |-> s, hwnds |-> hw, calls |-> cs, threw |-> FALSE]
  ELSE LET key == KeyOrder[i]
           overlayId == IF res[key] = "id" THEN <<FreshId(hw)>>
                        ELSE IF res[key] = "minusOne" THEN <<-1>>
                        ELSE Null
           c1 == Append(cs, Call("addHWND", overlayId, <<key>>))
           s1 == SET_WINDOW_ID(s, key, overlayId)
           position == getPosition(s1, key)
           size == Size(key)
       IN IF InvalidId(overlayId)
          THEN [state |-> s, hwnds |-> hw, calls |-> c1, threw |-> TRUE]
          ELSE RegisterFrom(
                 i + 1, s1, hw \cup {overlayId[1]},
                 c1 \o <<Call("setPosition", overlayId,
                              <<position[1], position[2], size[1], size[2]>>),
                         Call("setTransparency", overlayId,
                              <<Scale(s1.opacity)>>)>>,
                 res)

\* createWindowOverlays on this.windows; getNativeWindowHandle of a
\* destroyed window throws.
createWindowOverlays(s, res) ==
  IF WindowsGone
  THEN [state |-> s, hwnds |-> hwnds, calls |-> <<>>, threw |-> TRUE]
  ELSE RegisterFrom(1, s, hwnds, <<>>, res)

\* win.webContents.on('paint', ...): the windows that a pass with the
\* commands cs has given one more paint listener.
Painted(cs) ==
  {cs[i].args[1] : i \in {j \in 1..Len(cs) : cs[j].fn = "addHWND"
                                               /\ ~InvalidId(cs[j].id)}}

----------------------------------------------------------------------------
(* Initial state: a process that has just started, on a fresh profile or  *)
(* on the profile an earlier process left enabled with both surfaces      *)
(* registered.                                                            *)

PersistedStates ==
  {defaultState,
   [defaultState EXCEPT !.isEnabled = TRUE,
                        !.windowProperties["recentEvents"].id = <<1>>,
                        !.windowProperties["chat"].id = <<2>>]}

Init ==
  /\ state \in PersistedStates
  /\ runs = <<>>
  /\ pending = {}
  /\ status = "Stopped"
  /\ hwnds = {}
  /\ displays = {MainDisplay}
  /\ lifecycle = "unset"
  /\ initialized = FALSE
  /\ loggedIn = FALSE
  /\ calls = <<>>
  /\ lastOp = Op("construct", <<>>, FALSE)

----------------------------------------------------------------------------
(* Actions: the service's operations *)

\* initialize(): binds initializeOverlay / destroyOverlay to the session
\* lifecycle when the subsystem is enabled.
Initialize ==
  /\ ~initialized
  /\ initialized' = TRUE
  /\ lifecycle' = IF state.isEnabled THEN "bound" ELSE "unset"
  /\ calls' = <<>>
  /\ lastOp' = Op("initialize", <<>>, FALSE)
  /\ UNCHANGED <<state, runs, pending, status, hwnds, displays, loggedIn>>

\* Session start: the lifecycle's init callback, initializeOverlay.
Login ==
  /\ initialized /\ ~loggedIn
  /\ loggedIn' = TRUE
  /\ IF lifecycle = "bound"
     THEN initializeOverlay("lifecycle")
     ELSE /\ calls' = <<>>
          /\ UNCHANGED <<state, runs, pending, status, hwnds>>
  /\ lastOp' = Op("login", <<>>, FALSE)
  /\ UNCHANGED <<displays, lifecycle, initialized>>

\* Session end: the lifecycle's destroy callback, destroyOverlay.
Logout ==
  /\ loggedIn
  /\ loggedIn' = FALSE
  /\ IF lifecycle = "bound"
     THEN LET r == destroyOverlay(state)
          IN /\ state' = r.state
             /\ runs' = r.runs
             /\ status' = r.status
             /\ hwnds' = r.hwnds
             /\ calls' = r.calls
     ELSE /\ calls' = <<>>
          /\ UNCHANGED <<state, runs, status, hwnds>>
  /\ lastOp' = Op("logout", <<>>, FALSE)
  /\ UNCHANGED <<pending, displays, lifecycle, initialized>>

\* setEnabled(shouldEnable).  A start suspends inside initializeOverlay and
\* SET_ENABLED runs in ChatUrlResolved; a stop, or neither, runs through.
SetEnabled(shouldEnable) ==
  LET shouldStart == shouldEnable /\ ~state.isEnabled
      shouldStop == ~shouldEnable /\ state.isEnabled
  IN /\ initialized
     /\ IF shouldStart
        THEN initializeOverlay("setEnabled")
        ELSE IF shouldStop
        THEN LET r == destroyOverlay(state)
             IN /\ state' = SET_ENABLED(r.state, shouldEnable)
                /\ runs' = r.runs
                /\ status' = r.status
                /\ hwnds' = r.hwnds
                /\ calls' = r.calls
                /\ UNCHANGED pending
        ELSE /\ state' = SET_ENABLED(state, shouldEnable)
             /\ calls' = <<>>
             /\ UNCHANGED <<runs, pending, status, hwnds>>
     /\ lastOp' = Op("setEnabled", <<shouldEnable>>, FALSE)
     /\ UNCHANGED <<displays, lifecycle, initialized, loggedIn>>

\* destroy(): nothing without this.lifecycle; otherwise the lifecycle's
\* destroy(), which runs destroyOverlay and cancels the session hooks.
Destroy ==
  /\ initialized
  /\ IF lifecycle = "unset"
     THEN /\ calls' = <<>>
          /\ UNCHANGED <<state, runs, status, hwnds, lifecycle>>
     ELSE LET r == destroyOverlay(state)
          IN /\ state' = r.state
             /\ runs' = r.runs
             /\ status' = r.status
             /\ hwnds' = r.hwnds
             /\ calls' = r.calls
             /\ lifecycle' = "destroyed"
  /\ lastOp' = Op("destroy", <<>>, FALSE)
  /\ UNCHANGED <<pending, displays, initialized, loggedIn>>

\* Session end with a destroy() that fails: destroyOverlay throws.
LogoutDestroyFails ==
  /\ loggedIn /\ lifecycle = "bound"
  /\ state.isEnabled /\ cur > 0
  /\ loggedIn' = FALSE
  /\ LET r == destroyOverlayFailing(state)
     IN /\ state' = r.state
        /\ runs' = r.runs
        /\ status' = r.status
        /\ hwnds' = r.hwnds
        /\ calls' = r.calls
  /\ lastOp' = Op("logout", <<>>, TRUE)
  /\ UNCHANGED <<pending, displays, lifecycle, initialized>>

\* setEnabled(false) with a destroy() that fails: destroyOverlay throws
\* and SET_ENABLED is not reached.
SetEnabledDestroyFails ==
  /\ initialized
  /\ state.isEnabled /\ cur > 0
  /\ LET r == destroyOverlayFailing(state)
     IN /\ state' = r.state
        /\ runs' = r.runs
        /\ status' = r.status
        /\ hwnds' = r.hwnds
        /\ calls' = r.calls
  /\ lastOp' = Op("setEnabled", <<FALSE>>, TRUE)
  /\ UNCHANGED <<pending, displays, lifecycle, initialized, loggedIn>>

\* destroy() with a window destroy() that fails: the lifecycle's hooks are
\* cancelled, destroyOverlay throws and destroy() rejects.
DestroyFails ==
  /\ initialized /\ lifecycle # "unset"
  /\ state.isEnabled /\ cur > 0
  /\ lifecycle' = "destroyed"
  /\ LET r == destroyOverlayFailing(state)
     IN /\ state' = r.state
        /\ runs' = r.runs
        /\ status' = r.status
        /\ hwnds' = r.hwnds
        /\ calls' = r.calls
  /\ lastOp' = Op("destroy", <<>>, TRUE)
  /\ UNCHANGED <<pending, displays, initialized, loggedIn>>

\* The chat URL awaited in configureWindows arrives: loadURL on the chat
\* window that run created (it throws when the window has been destroyed),
\* and then, in setEnabled, SET_ENABLED.
ChatUrlResolved(p) ==
  LET gone == runs[p.run].destroyed
  IN /\ pending' = pending \ {p}
     /\ runs' = IF gone THEN runs
                ELSE [runs EXCEPT ![p.run].loading["chat"] = TRUE]
     /\ state' = IF ~gone /\ p.caller = "setEnabled"
                 THEN SET_ENABLED(state, TRUE) ELSE state
     /\ calls' = <<>>
     /\ lastOp' = Op("chatUrlResolved", <<p.run, p.caller>>, gone)
     /\ UNCHANGED <<status, hwnds, displays, lifecycle, initialized,
                    loggedIn>>

ShowOverlay ==
  /\ initialized
  /\ state' = TOGGLE_OVERLAY(state, TRUE)
  /\ calls' = <<Call("show", Null, <<>>)>>
  /\ lastOp' = Op("showOverlay", <<>>, WindowsGone)
  /\ UNCHANGED <<runs, pending, status, hwnds, displays, lifecycle,
                 initialized, loggedIn>>

HideOverlay ==
  /\ initialized
  /\ state' = TOGGLE_OVERLAY(state, FALSE)
  /\ calls' = <<Call("hide", Null, <<>>)>>
  /\ lastOp' = Op("hideOverlay", <<>>, FALSE)
  /\ UNCHANGED <<runs, pending, status, hwnds, displays, lifecycle,
                 initialized, loggedIn>>

\* The guard of toggleOverlay.
\* Variant: the compositor status is not consulted.
ToggleRefused_EnabledOnly == ~state.isEnabled

ToggleRefused == status # "Running" \/ ~state.isEnabled

ToggleOverlay ==
  /\ initialized
  /\ IF ToggleRefused
     THEN /\ calls' = <<>>
          /\ lastOp' = Op("toggleOverlay", <<>>, FALSE)
          /\ UNCHANGED <<state, runs>>
     ELSE LET p == IF state.previewMode THEN setPreviewMode(state, FALSE)
                   ELSE [state |-> state, calls |-> <<>>, runs |-> runs,
                         threw |-> FALSE]
              show == ~p.state.isShowing
          IN /\ state' = TOGGLE_OVERLAY(p.state, show)
             /\ runs' = p.runs
             /\ calls' = Append(p.calls,
                                Call(IF show THEN "show" ELSE "hide",
                                     Null, <<>>))
             /\ lastOp' = Op("toggleOverlay", <<>>, show /\ WindowsGone)
  /\ UNCHANGED <<pending, status, hwnds, displays, lifecycle, initialized,
                 loggedIn>>

\* setPreviewEnabled(shouldEnable)
SetPreviewEnabled(shouldEnable) ==
  /\ initialized
  /\ state' = SET_PREVIEW_ENABLED(state, shouldEnable)
  /\ calls' = <<>>
  /\ lastOp' = Op("setPreviewEnabled", <<shouldEnable>>, FALSE)
  /\ UNCHANGED <<runs, pending, status, hwnds, displays, lifecycle,
                 initialized, loggedIn>>

SetPreviewMode(previewMode) ==
  LET r == setPreviewMode(state, previewMode)
  IN /\ initialized
     /\ state' = r.state
     /\ runs' = r.runs
     /\ calls' = r.calls
     /\ lastOp' = Op("setPreviewMode", <<previewMode>>, r.threw)
     /\ UNCHANGED <<pending, status, hwnds, displays, lifecycle,
                    initialized, loggedIn>>

SetOverlayOpacity(percentage) ==
  LET r == setOverlayOpacity(state, percentage)
  IN /\ initialized
     /\ state' = r.state
     /\ calls' = r.calls
     /\ lastOp' = Op("setOverlayOpacity", <<percentage>>, FALSE)
     /\ UNCHANGED <<runs, pending, status, hwnds, displays, lifecycle,
                    initialized, loggedIn>>

ResetPosition ==
  LET r == resetPosition(state)
  IN /\ initialized
     /\ state' = r.state
     /\ runs' = r.runs
     /\ calls' = r.calls
     /\ lastOp' = Op("resetPosition", <<>>, r.threw)
     /\ UNCHANGED <<pending, status, hwnds, displays, lifecycle,
                    initialized, loggedIn>>

\* determineStartPosition(window) called on its own: lastOp keeps the
\* window, the position that was stored and the position returned.
DetermineStartPosition(window) ==
  LET r == determineStartPosition(state, window, displays)
  IN /\ initialized
     /\ state' = r.state
     /\ calls' = <<>>
     /\ lastOp' = Op("determineStartPosition",
                     <<window, state.windowProperties[window].position,
                       r.position>>, FALSE)
     /\ UNCHANGED <<runs, pending, status, hwnds, displays, lifecycle,
                    initialized, loggedIn>>

----------------------------------------------------------------------------
(* Actions: events *)

\* onWindowsReady.next(win): every live take(n) counts it, and the one it
\* completes starts its 5-second delay.
Next_onWindowsReady(rs) ==
  [q \in 1..Len(rs) |->
     IF rs[q].phase # "waiting" THEN rs[q]
     ELSE IF rs[q].need > 1 THEN [rs[q] EXCEPT !.need = @ - 1]
     ELSE [rs[q] EXCEPT !.need = 0, !.phase = "delaying"]]

\* A source window's one-shot did-finish-load listener fires.
DidFinishLoad(r, key) ==
  /\ ~runs[r].destroyed
  /\ runs[r].loading[key] /\ ~runs[r].loaded[key]
  /\ runs' = Next_onWindowsReady([runs EXCEPT ![r].loaded[key] = TRUE])
  /\ calls' = <<>>
  /\ lastOp' = Op("didFinishLoad", <<r, key>>, FALSE)
  /\ UNCHANGED <<state, pending, status, hwnds, displays, lifecycle,
                 initialized, loggedIn>>

\* The delay of run r's pipeline has run out and its completion is
\* delivered: createWindowOverlays.
SettleElapsed(r, res) ==
  /\ runs[r].phase = "delaying"
  /\ LET c == createWindowOverlays(state, res)
     IN /\ state' = c.state
        /\ hwnds' = c.hwnds
        /\ calls' = c.calls
        /\ lastOp' = Op("createWindowOverlays", <<r>>, c.threw)
        /\ runs' = [runs EXCEPT
                      ![r].phase = "done",
                      ![cur].paint = [k \in Keys |->
                                       IF k \in Painted(c.calls)
                                       THEN @[k] + 1 ELSE @[k]]]
  /\ UNCHANGED <<pending, status, displays, lifecycle, initialized,
                 loggedIn>>

\* The user drags a shown preview window.
DragPreview(key, pos) ==
  /\ cur > 0 /\ ~runs[cur].destroyed /\ runs[cur].previewShown
  /\ runs[cur].prevPos[key] # pos
  /\ runs' = [runs EXCEPT ![cur].prevPos[key] = pos]
  /\ calls' = <<>>
  /\ lastOp' = Op("dragPreview", <<key, pos>>, FALSE)
  /\ UNCHANGED <<state, pending, status, hwnds, displays, lifecycle,
                 initialized, loggedIn>>

\* A monitor is attached or detached.
DisplayChange(ds) ==
  /\ ds # displays
  /\ displays' = ds
  /\ calls' = <<>>
  /\ lastOp' = Op("displayChange", <<>>, FALSE)
  /\ UNCHANGED <<state, runs, pending, status, hwnds, lifecycle,
                 initialized, loggedIn>>

----------------------------------------------------------------------------

Lifecycle ==
  \/ Initialize
  \/ Login
  \/ Logout
  \/ Destroy
  \/ \E shouldEnable \in BOOLEAN : SetEnabled(shouldEnable)
  \/ \E p \in pending : ChatUrlResolved(p)

Readiness ==
  \/ \E r \in 1..Len(runs), key \in Keys : DidFinishLoad(r, key)
  \/ \E r \in 1..Len(runs), res \in [Keys -> AddResults] : SettleElapsed(r, res)

Preview ==
  \/ ToggleOverlay
  \/ \E previewMode \in BOOLEAN : SetPreviewMode(previewMode)

Visibility ==
  \/ ShowOverlay
  \/ HideOverlay
  \/ Preview
  \/ \E shouldEnable \in BOOLEAN : SetPreviewEnabled(shouldEnable)

Opacity == \E percentage \in OpacityInputs : SetOverlayOpacity(percentage)

Placement ==
  \/ ResetPosition
  \/ \E key \in Keys, pos \in DragPositions : DragPreview(key, pos)
  \/ \E ds \in DisplayConfigs : DisplayChange(ds)

Faults ==
  \/ LogoutDestroyFails
  \/ SetEnabledDestroyFails
  \/ DestroyFails

Resolver == \E window \in Keys : DetermineStartPosition(window)

\* The whole service.
Next ==
  \/ Lifecycle \/ Readiness \/ Visibility \/ Opacity \/ Placement
  \/ Resolver \/ Faults

System == Init /\ [][Next]_vars

\* Enabling, disabling, the session, and the readiness pipeline.
Spec == Init /\ [][Lifecycle \/ Readiness]_vars

\* Enabling, disabling, the session, and showing, hiding and previewing.
SpecVisibility == Init /\ [][Lifecycle \/ Visibility]_vars

\* Enabling, disabling, the session, the readiness pipeline, and opacity.
SpecOpacity == Init /\ [][Lifecycle \/ Readiness \/ Opacity]_vars

\* Enabling, disabling, the session, toggling and previewing, and placement.
SpecPlacement == Init /\ [][Lifecycle \/ Preview \/ Placement]_vars

\* Enabling, disabling, the session, previewing, placement, and the
\* start-position resolver called on its own.
SpecResolve == Init /\ [][Lifecycle \/ Preview \/ Placement \/ Resolver]_vars

\* Enabling, disabling, the session, the readiness pipeline, and teardowns
\* in which a destroy() fails.
SpecTeardown == Init /\ [][Lifecycle \/ Readiness \/ Faults]_vars

\* The compositor accepts every handle.
Accepting == [k \in Keys |-> "id"]

ReadinessAccepted ==
  \/ \E r \in 1..Len(runs), key \in Keys : DidFinishLoad(r, key)
  \/ \E r \in 1..Len(runs) : SettleElapsed(r, Accepting)

\* Every chat-URL lookup resolves, every source window that is loading
\* emits did-finish-load, and every delay runs out.
Fairness ==
  /\ WF_vars(\E p \in pending : ChatUrlResolved(p))
  /\ WF_vars(\E r \in 1..Len(runs), key \in Keys : DidFinishLoad(r, key))
  /\ WF_vars(\E r \in 1..Len(runs) : SettleElapsed(r, Accepting))

\* Enabling, disabling, the session, and the readiness pipeline with a
\* compositor that accepts every handle and events that do take place.
SpecLive == Init /\ [][Lifecycle \/ ReadinessAccepted]_vars /\ Fairness

----------------------------------------------------------------------------
(* Properties *)

\* The compositor commands of the last step that are fn.
CallsOf(fn) == {i \in 1..Len(calls) : calls[i].fn = fn}

\* The last step ran createWindowOverlays and the compositor rejected a
\* window handle in it: its last command is an addHWND that returned -1 or
\* null.
HandleRejected ==
  /\ lastOp.name = "createWindowOverlays"
  /\ Len(calls) > 0
  /\ calls[Len(calls)].fn = "addHWND"
  /\ calls[Len(calls)].id \in {<<-1>>, Null}

\* C1: previewMode and isShowing are never both true, whatever sequence of
\* toggleOverlay, showOverlay, hideOverlay, setPreviewMode, setEnabled,
\* login and logout has run.
C1_PreviewExcludesShowing == ~(state.previewMode /\ state.isShowing)

\* C2: when createWindowOverlays registers source windows (addHWND), every
\* source window being registered has emitted did-finish-load.
C2_RegistrationAfterReady ==
  (lastOp.name = "createWindowOverlays" /\ CallsOf("addHWND") # {})
    => \A key \in Keys : runs[cur].loaded[key]

\* C3: a toggleOverlay issued while the compositor is not running or the
\* subsystem is disabled leaves the whole persisted state unchanged and
\* issues no compositor command, whatever isShowing and previewMode are.
C3_ToggleRefusedIsNoOp ==
  [][(lastOp'.name = "toggleOverlay"
      /\ (status # "Running" \/ ~state.isEnabled))
     => (state' = state /\ calls' = <<>>)]_vars

\* C3, reached: toggleOverlay has just been refused with the subsystem
\* enabled, the compositor stopped and the overlay marked as showing.
C3_Witness ==
  /\ lastOp.name = "toggleOverlay"
  /\ status # "Running"
  /\ state.isEnabled
  /\ state.isShowing

\* C4: when the compositor rejects a window handle of an initialization
\* that setEnabled(true) started and has finished, the subsystem is left
\* disabled.
C4_RejectedHandleLeavesDisabled ==
  (/\ HandleRejected
   /\ runs[cur].caller = "setEnabled"
   /\ \A p \in pending : p.run # cur)
    => ~state.isEnabled

\* C5: in one pass of createWindowOverlays, an addHWND that returns -1 or
\* null raises an error, is the last compositor command of the pass, and
\* leaves the persisted id of its key and of every later key as it was.
C5_InvalidIdStopsPass ==
  [][lastOp'.name = "createWindowOverlays"
     => \A i \in CallsOf("addHWND")' :
          calls'[i].id \in {<<-1>>, Null}
            => /\ lastOp'.threw
               /\ i = Len(calls')
               /\ \A j \in 1..Len(KeyOrder) :
                    (\E h \in 1..j : KeyOrder[h] = calls'[i].args[1])
                      => state'.windowProperties[KeyOrder[j]].id
                           = state.windowProperties[KeyOrder[j]].id]_vars

\* C5, reached: the pass stopped at the first key, whose addHWND was
\* rejected, and the second key was not handed to the compositor.
C5_Witness ==
  /\ HandleRejected
  /\ lastOp.threw
  /\ Len(calls) = 1
  /\ calls[1].args = <<KeyOrder[1]>>

\* C6: at most one initializeOverlay started by setEnabled(true) is in
\* flight for one disabled-to-enabled transition.
C6_StartsOncePerTransition ==
  Cardinality({p \in pending : p.caller = "setEnabled"}) <= 1


\* C7: setOverlayOpacity(p) persists opacity = p; disabled, it issues no
\* compositor command; enabled with the windows created, it issues
\* setTransparency exactly once for each key whose persisted id is not
\* null, and never with a null id.
C7_OpacityOnlyToRegistered ==
  lastOp.name = "setOverlayOpacity"
    => /\ state.opacity = lastOp.arg[1]
       /\ ~state.isEnabled => calls = <<>>
       /\ \A i \in 1..Len(calls) :
            calls[i].fn = "setTransparency" /\ calls[i].id # Null
       /\ (state.isEnabled /\ cur > 0)
            => \A key \in Keys :
                 state.windowProperties[key].id # Null
                   => Cardinality(
                        {i \in 1..Len(calls) :
                           calls[i].id = state.windowProperties[key].id}) = 1

\* C8: the persisted opacity is in [0, 100], and every value handed to the
\* compositor's setTransparency is in [0, 255].
C8_OpacityInRange ==
  /\ state.opacity \in 0..100
  /\ \A i \in CallsOf("setTransparency") :
       calls[i].args[1] \in Scale(0)..Scale(100)

\* C9: resetPosition, with the windows alive, clears the stored position of
\* every key and puts the source and the preview window of every key at the
\* key's default position; it calls the compositor's setPosition for a key
\* exactly when the key's persisted id is not null, with that geometry.
C9_ResetEveryKey ==
  (lastOp.name = "resetPosition" /\ cur > 0 /\ ~runs[cur].destroyed)
    => \A key \in Keys :
         LET id == state.windowProperties[key].id
             geometry == defaultPosition(key) \o Size(key)
             sent == {i \in CallsOf("setPosition") :
                        calls[i].args = geometry}
         IN /\ state.windowProperties[key].position = Null
            /\ runs[cur].winPos[key] = defaultPosition(key)
            /\ runs[cur].prevPos[key] = defaultPosition(key)
            /\ id = Null => sent = {}
            /\ id # Null => \E i \in sent : calls[i].id = id

\* What leaving preview mode does to key: the preview window's position is
\* the persisted position, and exactly one setPosition carries it, with the
\* preview window's size.
Persisted(key, pos) ==
  /\ state'.windowProperties[key].position = pos
  /\ Cardinality({i \in CallsOf("setPosition")' :
                    calls'[i].args = pos \o Size(key)}) = 1

\* A step that writes a position that is not null into the persisted state.
WritesPosition ==
  \E key \in Keys :
    /\ state'.windowProperties[key].position # Null
    /\ state'.windowProperties[key].position
         # state.windowProperties[key].position

\* A step that runs setPreviewMode(false) past its isEnabled guard: the
\* call itself, or a toggleOverlay that leaves preview mode.
LeavesPreview ==
  \/ lastOp'.name = "setPreviewMode" /\ lastOp'.arg = <<FALSE>>
       /\ state.isEnabled
  \/ lastOp'.name = "toggleOverlay" /\ state.previewMode
       /\ state.isEnabled /\ status = "Running"

\* C10 as claimed: whenever the subsystem is enabled, setPreviewMode(false)
\* persists a position for every key and hands it to the compositor once.
C10_LeavePreviewPersistsWhenEnabled ==
  [][(lastOp'.name = "setPreviewMode" /\ lastOp'.arg = <<FALSE>>
      /\ state.isEnabled)
     => \A key \in Keys :
          /\ state'.windowProperties[key].position # Null
          /\ Persisted(key, state'.windowProperties[key].position)]_vars

\* C10, amended: when the subsystem is enabled and the preview windows
\* exist and are not destroyed, setPreviewMode(false) persists each preview
\* window's position, hands it to the compositor exactly once with the
\* window's size, and hides the window; and only setPreviewMode(false)
\* writes a position that is not null.
C10_LeavePreviewPersists ==
  [][/\ (lastOp'.name = "setPreviewMode" /\ lastOp'.arg = <<FALSE>>
         /\ state.isEnabled /\ cur > 0 /\ ~runs[cur].destroyed)
        => /\ \A key \in Keys : Persisted(key, runs[cur].prevPos[key])
           /\ Cardinality(CallsOf("setPosition")') = Cardinality(Keys)
           /\ ~runs'[cur].previewShown
     /\ WritesPosition => LeavesPreview]_vars

\* C10, reached: setPreviewMode(false) has just persisted the place a
\* preview window was dragged to, away from its source window.
C10_Witness ==
  /\ lastOp.name = "setPreviewMode" /\ lastOp.arg = <<FALSE>>
  /\ state.isEnabled /\ cur > 0 /\ ~runs[cur].destroyed
  /\ \E key \in Keys :
       /\ runs[cur].prevPos[key] \in DragPositions
       /\ state.windowProperties[key].position = runs[cur].prevPos[key]
       /\ runs[cur].winPos[key] # runs[cur].prevPos[key]

\* pos is a pixel of display's rectangle, its top and left edges included.
Within(pos, display) ==
  /\ display.bounds.x <= pos[1]
  /\ pos[1] < display.bounds.x + display.bounds.width
  /\ display.bounds.y <= pos[2]
  /\ pos[2] < display.bounds.y + display.bounds.height

\* The last step was determineStartPosition called on its own.
Resolved == lastOp.name = "determineStartPosition"

\* C11: when the stored position of a key is null or lies outside every
\* attached display, determineStartPosition returns the key's default
\* position and leaves the stored position null; a second call with the
\* same displays returns the same default and changes nothing.
C11_OutsideGivesDefault ==
  Resolved =>
    LET window == lastOp.arg[1]
        saved == lastOp.arg[2]
        returned == lastOp.arg[3]
    IN (saved = Null \/ \A display \in displays : ~Within(saved, display))
       => /\ returned = defaultPosition(window)
          /\ state.windowProperties[window].position = Null
          /\ determineStartPosition(state, window, displays)
               = [state |-> state, position |-> returned]

\* C11, reached: determineStartPosition has just been given a stored
\* position on a display that is no longer attached.
C11_Witness ==
  /\ Resolved
  /\ lastOp.arg[2] # Null
  /\ \A display \in displays : ~Within(lastOp.arg[2], display)
  /\ lastOp.arg[3] = defaultPosition(lastOp.arg[1])
  /\ state.windowProperties[lastOp.arg[1]].position = Null

\* C12: when the stored position of a key lies within the rectangle of an
\* attached display, its top and left edges included, determineStartPosition
\* returns the stored position and does not clear it.
C12_InsideKeepsPosition ==
  Resolved =>
    LET window == lastOp.arg[1]
        saved == lastOp.arg[2]
        returned == lastOp.arg[3]
    IN (saved # Null /\ \E display \in displays : Within(saved, display))
       => /\ returned = saved
          /\ state.windowProperties[window].position = saved

\* The last step ran destroyOverlay with the subsystem enabled: from the
\* session's end, from setEnabled(false), or from destroy().
TornDown ==
  /\ lastOp.name \in {"logout", "setEnabled", "destroy"}
  /\ CallsOf("stop") # {}

\* C13: destroyOverlay does not throw to its caller, and whether or not a
\* destroy() failed it leaves the current windows destroyed and previewMode
\* and isShowing false.
C13_TeardownIsBestEffort ==
  TornDown =>
    /\ ~lastOp.threw
    /\ cur > 0 => runs[cur].destroyed
    /\ ~state.previewMode /\ ~state.isShowing

\* C14: once destroyOverlay has run, no readiness pipeline started before
\* it fires: createWindowOverlays is never invoked on windows that have
\* been destroyed.
C14_NoPassAfterTeardown ==
  lastOp.name = "createWindowOverlays" => ~runs[cur].destroyed

\* C15: a compositor command that takes a surface id carries an id that
\* addHWND returned since the compositor was started: an id persisted by an
\* earlier session is not passed before the windows are registered again.
C15_OnlyFreshIds ==
  \A i \in CallsOf("setPosition") \cup CallsOf("setTransparency") :
    calls[i].id # Null => calls[i].id[1] \in hwnds

\* C16: outside a drag, which needs the preview windows shown, the source
\* window and the preview window of every key are in the same place.
C16_PairsShareBounds ==
  \A r \in 1..Len(runs) :
    ~runs[r].destroyed /\ ~runs[r].previewShown
      => \A key \in Keys : runs[r].winPos[key] = runs[r].prevPos[key]

\* C17: in a destroyOverlay that tears down, overlay.stop() comes before
\* the subscription is cancelled and before any window is destroyed, so
\* the compositor is stopped when a window goes.
C17_StopBeforeTeardown ==
  [][LET torn == {i \in 1..Len(calls') :
                    calls'[i].fn \in {"unsubscribe", "destroy"}}
         stops == {i \in 1..Len(calls') : calls'[i].fn = "stop"}
         goes == \E r \in 1..Len(runs) :
                   \/ runs'[r].destroyed /\ ~runs[r].destroyed
                   \/ /\ runs'[r].phase = "unsubscribed"
                      /\ runs[r].phase # "unsubscribed"
     IN /\ \A i \in torn : \E j \in stops : j < i
        /\ goes => torn # {}
        /\ torn # {} => status' = "Stopped"]_vars

\* C17, reached: a destroyOverlay has just stopped the compositor,
\* cancelled a subscription that was still waiting or delaying, and
\* destroyed the windows.
C17_Witness ==
  /\ TornDown
  /\ CallsOf("unsubscribe") # {} /\ CallsOf("destroy") # {}
  /\ runs[cur].destroyed /\ runs[cur].phase = "unsubscribed"
  /\ status = "Stopped"

\* C18: the compositor runs and windows exist only while isEnabled is true:
\* a login while the subsystem is disabled starts nothing, and a logout
\* after an initializeOverlay stops the compositor and destroys that run's
\* windows.
C18_OnlyWhileEnabled ==
  [][/\ (lastOp'.name = "login" /\ ~state.isEnabled)
        => (status' = status /\ runs' = runs)
     /\ (lastOp'.name = "logout" /\ ~lastOp'.threw
         /\ lifecycle = "bound" /\ cur > 0)
        => (status' = "Stopped" /\ runs'[cur].destroyed)]_vars

\* The runs whose windows have not been destroyed.
LiveRuns == {r \in 1..Len(runs) : ~runs[r].destroyed}

\* C19: at most one source window and one preview window per key are
\* alive: initializeOverlay does not create windows while those of an
\* earlier run are still alive.
C19_OneLivePair == Cardinality(LiveRuns) <= 1

\* C20: after an initializeOverlay that no destroyOverlay follows, when
\* the windows load and the compositor accepts their handles,
\* createWindowOverlays runs once for the windows of that run: no window
\* is registered, and given a paint listener, a second time.
C20_RegisteredOnce ==
  \A r \in 1..Len(runs) : \A key \in Keys : runs[r].paint[key] <= 1

====
